---- MODULE Spec2Model ----
(***************************************************************************)
(* A model of the knowledge base of the equity research tool               *)
(* (src/knowledge_base.py): three JSON files holding lists of records, the *)
(* add / update / delete / get operations over them, the search with its   *)
(* matching predicate and relevance score, and the load and save of a file *)
(* as concurrent threads see them; and of the cache of the market data     *)
(* provider (src/stock_data.py).                                           *)
(*                                                                         *)
(* Python values are modelled as follows.  A str is a sequence of          *)
(* one-character strings, None is the value None below, a list is a        *)
(* sequence, a dict is a function from key names to values, a uuid string  *)
(* is a natural number, and an ISO timestamp is a number of days.  Scores  *)
(* are kept in tenths (3.0 is 30) so that they stay integers.  Where a     *)
(* timestamp is expected, a value that is none is a negative number.       *)
(***************************************************************************)
EXTENDS Integers, Sequences, FiniteSets, TLC

VARIABLES
    fs,         \* the files of the storage directory
    nextUuid,   \* the uuid generator: the next value of uuid4()
    nUpdates,   \* the number of update_item calls made
    now,        \* the clock, in days
    writable,   \* whether the storage medium can be written
    ret,        \* the last call: its arguments, what it returned, what it logged
    deleted,    \* history: the (id, type) pairs for which delete_item returned True
    th,         \* the calls in progress, when threads run them step by step
    stock       \* the StockDataProvider: its cache, and the fetches made for it

vars == <<fs, nextUuid, nUpdates, now, writable, ret, deleted, th, stock>>

(***************************************************************************)
(* Bounds of the model.                                                    *)
(***************************************************************************)
\* The number of uuid4() calls a run makes (the number of add calls).
MaxUuid == 2
\* The number of update_item calls a run makes.
MaxUpdates == 1
\* The number of calls each of two callers at once makes.
MaxCalls == 2
\* The number of fetches made of the market data between two clear_cache.
MaxFetches == 3

(***************************************************************************)
(* Strings.                                                                *)
(***************************************************************************)
None == <<"<None>">>
EmptyStr == <<>>
S_AppleQ4 == <<"A", "p", "p", "l", "e", " ", "Q", "4">>
S_StrongQuarter == <<"s", "t", "r", "o", "n", "g", " ", "q", "u", "a", "r", "t", "e", "r">>
S_AppleEarningsBeat == <<"A", "p", "p", "l", "e", " ", "e", "a", "r", "n", "i", "n", "g", "s", " ", "b", "e", "a", "t">>
S_IPhoneSalesUp == <<"i", "P", "h", "o", "n", "e", " ", "s", "a", "l", "e", "s", " ", "u", "p">>
S_TechOutlook == <<"T", "e", "c", "h", " ", "O", "u", "t", "l", "o", "o", "k">>
S_SectorTrends == <<"s", "e", "c", "t", "o", "r", " ", "t", "r", "e", "n", "d", "s">>
S_AppleWatch == <<"A", "p", "p", "l", "e", " ", "W", "a", "t", "c", "h">>
S_WatchSalesUp == <<"W", "a", "t", "c", "h", " ", "s", "a", "l", "e", "s", " ", "u", "p">>
S_AppleWearables == <<"a", "p", "p", "l", "e", " ", "w", "e", "a", "r", "a", "b", "l", "e", "s">>
S_MsftDeepDive == <<"M", "S", "F", "T", " ", "d", "e", "e", "p", " ", "d", "i", "v", "e">>
S_AppleVsMsft == <<"a", "p", "p", "l", "e", " ", "v", "s", " ", "m", "s", "f", "t">>
S_Url == <<"h", "t", "t", "p", "s", ":", "/", "/", "e", ".", "c", "o", "m", "/", "a">>
S_Broker == <<"b", "r", "o", "k", "e", "r">>
S_Draft == <<"D", "r", "a", "f", "t">>
S_Earnings == <<"e", "a", "r", "n", "i", "n", "g", "s">>
S_EarningsCap == <<"E", "a", "r", "n", "i", "n", "g", "s">>
S_X == <<"x">>
S_AAPL == <<"A", "A", "P", "L">>
S_aapl == <<"a", "a", "p", "l">>
S_MSFT == <<"M", "S", "F", "T">>
S_Apple == <<"A", "p", "p", "l", "e">>
S_SalesUp == <<"S", "a", "l", "e", "s", " ", "U", "p">>
S_aapl_spaced == <<" ", "a", "a", "p", "l", " ">>

ToLower ==
    "A" :> "a" @@ "B" :> "b" @@ "C" :> "c" @@ "D" :> "d" @@ "E" :> "e" @@ "F" :> "f" @@ "G" :> "g" @@
    "H" :> "h" @@ "I" :> "i" @@ "J" :> "j" @@ "K" :> "k" @@ "L" :> "l" @@ "M" :> "m" @@ "N" :> "n" @@
    "O" :> "o" @@ "P" :> "p" @@ "Q" :> "q" @@ "R" :> "r" @@ "S" :> "s" @@ "T" :> "t" @@ "U" :> "u" @@
    "V" :> "v" @@ "W" :> "w" @@ "X" :> "x" @@ "Y" :> "y" @@ "Z" :> "z"

ToUpper ==
    "a" :> "A" @@ "b" :> "B" @@ "c" :> "C" @@ "d" :> "D" @@ "e" :> "E" @@ "f" :> "F" @@ "g" :> "G" @@
    "h" :> "H" @@ "i" :> "I" @@ "j" :> "J" @@ "k" :> "K" @@ "l" :> "L" @@ "m" :> "M" @@ "n" :> "N" @@
    "o" :> "O" @@ "p" :> "P" @@ "q" :> "Q" @@ "r" :> "R" @@ "s" :> "S" @@ "t" :> "T" @@ "u" :> "U" @@
    "v" :> "V" @@ "w" :> "W" @@ "x" :> "X" @@ "y" :> "Y" @@ "z" :> "Z"

\* str.lower()
lower(s) == [i \in 1..Len(s) |-> IF s[i] \in DOMAIN ToLower THEN ToLower[s[i]] ELSE s[i]]

\* str.upper()
upper(s) == [i \in 1..Len(s) |-> IF s[i] \in DOMAIN ToUpper THEN ToUpper[s[i]] ELSE s[i]]

\* sub in s, for two str
Contains(sub, s) ==
    \E i \in 0..(Len(s) - Len(sub)) : \A j \in 1..Len(sub) : s[i + j] = sub[j]

\* A test that holds of any list that is not empty.
Member_nonempty(x, xs) == xs # <<>>

\* x in xs, for a list xs
Member(x, xs) == \E i \in 1..Len(xs) : xs[i] = x

Whitespace == {" "}

\* str.split(): the maximal runs of non-whitespace characters, in order
RECURSIVE SplitFrom(_, _, _)
SplitFrom(s, i, cur) ==
    IF i > Len(s)
    THEN IF cur = <<>> THEN <<>> ELSE <<cur>>
    ELSE IF s[i] \in Whitespace
         THEN IF cur = <<>>
              THEN SplitFrom(s, i + 1, <<>>)
              ELSE <<cur>> \o SplitFrom(s, i + 1, <<>>)
         ELSE SplitFrom(s, i + 1, Append(cur, s[i]))

split(s) == SplitFrom(s, 1, <<>>)

\* str.strip(): s without its leading and trailing whitespace
strip(s) ==
    LET inner == { i \in 1..Len(s) : s[i] \notin Whitespace }
    IN  IF inner = {} THEN <<>>
        ELSE SubSeq(s, CHOOSE i \in inner : \A j \in inner : i <= j,
                       CHOOSE i \in inner : \A j \in inner : i >= j)

\* [f(x) for x in xs]
MapLower(xs) == [i \in 1..Len(xs) |-> lower(xs[i])]
MapUpper(xs) == [i \in 1..Len(xs) |-> upper(xs[i])]

\* dict.get(key, default)
Get(item, key, default) == IF key \in DOMAIN item THEN item[key] ELSE default

\* None where a list is expected (an omitted tags or related_tickers argument)
NoneList == <<None>>

\* "x or []" for an optional list argument
OrEmpty(x) == IF x = NoneList THEN <<>> ELSE x

(***************************************************************************)
(* The three files of the storage directory.  A file is the JSON text of a *)
(* list: the items written so far and whether the closing bracket has been *)
(* written.  json.load raises on a text that is not closed.                *)
(***************************************************************************)
notes_file == "notes.json"
articles_file == "articles.json"
research_file == "research.json"
Files == {notes_file, articles_file, research_file}

JsonText(data) == [items |-> data, closed |-> TRUE]
EmptyFile == [items |-> <<>>, closed |-> FALSE]

\* The text of a list cut after its items written so far: json.load raises.
Truncated(data) == [items |-> data, closed |-> FALSE]

\* A path at which there is no file: open(file_path, 'r') raises.
Absent == [items |-> <<>>, closed |-> FALSE, exists |-> FALSE]

\* The storage directory before any KnowledgeBase was made on it.
NewDir == [f \in Files |-> Absent]

\* A _init_storage that writes json.dump([]) into every file.
_init_storage_all(files) == [f \in Files |-> JsonText(<<>>)]

\* _init_storage: each file that does not exist holds json.dump([]), the
\* others are as they were
_init_storage(files) ==
    [f \in Files |-> IF files[f] = Absent THEN JsonText(<<>>) ELSE files[f]]

\* _load_data: json.load of the file, [] when it raises
_load_data(files, file_path) ==
    IF files[file_path].closed THEN files[file_path].items ELSE <<>>

\* The lines _load_data logs when it loads the files: one for a file open or
\* json.load raises on.
load_errors(files, file_paths) ==
    IF \E f \in file_paths : ~files[f].closed THEN {"Error loading data"} ELSE {}

\* _save_data: the file holds json.dump(data); open(file_path, 'w') raises on
\* an unwritable medium, the file is as before and the exception is logged and
\* raised again
_save_data(files, file_path, data) ==
    IF writable
    THEN [files |-> [files EXCEPT ![file_path] = JsonText(data)],
          raised |-> FALSE, log |-> {}]
    ELSE [files |-> files, raised |-> TRUE, log |-> {"Error saving data"}]

\* An id made from the time of the call.
uuid_from_clock == now + 1

\* uuid.uuid4(): a value no earlier call returned
uuid4 == nextUuid

\* datetime.now().isoformat()
isoformat_now == now

\* What a created_at can be besides a timestamp: the empty str (the default
\* of item.get('created_at', '')), None, and a str that is no ISO timestamp.
EmptyStamp == -1
NoneStamp == -2
TextStamp == -3

\* datetime.fromisoformat(x) raises (ValueError, or TypeError for None)
fromisoformat_raises(x) == x < 0

(***************************************************************************)
(* The arguments the calls are made with.                                  *)
(***************************************************************************)
NoteInputs ==
    { [title |-> S_AppleQ4, content |-> S_StrongQuarter,
       tags |-> <<S_Earnings>>, related_tickers |-> <<S_AAPL>>],
      [title |-> S_AppleEarningsBeat, content |-> S_IPhoneSalesUp,
       tags |-> NoneList, related_tickers |-> NoneList],
      [title |-> EmptyStr, content |-> EmptyStr,
       tags |-> NoneList, related_tickers |-> NoneList] }

ArticleInputs ==
    { [title |-> S_TechOutlook, url |-> S_Url, summary |-> S_SectorTrends,
       content |-> None, tags |-> NoneList, related_tickers |-> <<S_AAPL, S_MSFT>>],
      [title |-> S_AppleWatch, url |-> S_Url, summary |-> S_AppleWearables,
       content |-> S_WatchSalesUp, tags |-> <<S_EarningsCap>>,
       related_tickers |-> <<S_aapl>>],
      [title |-> S_Draft, url |-> EmptyStr, summary |-> S_SectorTrends,
       content |-> S_X, tags |-> NoneList, related_tickers |-> NoneList] }

ResearchInputs ==
    { [title |-> S_MsftDeepDive, content |-> S_AppleVsMsft, source |-> S_Broker,
       tags |-> <<S_Earnings, S_X>>, related_tickers |-> <<S_MSFT>>],
      [title |-> S_Draft, content |-> EmptyStr, source |-> None,
       tags |-> NoneList, related_tickers |-> NoneList] }

\* The item types the callers name, and one that is none of them.
ItemTypes == {"notes", "articles", "research"}
OtherType == "memos"

\* The ids a caller can name: those uuid4 has returned, and 0, which it never
\* returns.
KnownIds == 0..(nextUuid - 1)

\* The instants at which calls are made, in days.
Clock == {0, 1, 30, 90}

\* A note an earlier session stored, or an import wrote: id is its id (no
\* uuid4 of this session), created_at what its 'created_at' holds.
OldNote(id, title, created_at) ==
    [id |-> id, type |-> "note", title |-> title, content |-> S_StrongQuarter,
     tags |-> <<>>, related_tickers |-> <<>>, created_at |-> created_at,
     updated_at |-> 0]

\* The same without the key 'created_at'.
Undated(item) == [k \in DOMAIN item \ {"created_at"} |-> item[k]]

\* An article an earlier session stored.
OldArticle ==
    [id |-> -3, type |-> "article", title |-> S_TechOutlook, url |-> S_Url,
     summary |-> S_SectorTrends, content |-> S_X, tags |-> <<>>,
     related_tickers |-> <<>>, created_at |-> 0, updated_at |-> 0]

\* The storage directories a KnowledgeBase is made on: a new one; one whose
\* notes were stored on the same day, one of them without a created_at; one
\* whose notes have a created_at that is None and one that is no timestamp;
\* one whose notes.json is empty (no byte) and whose research.json does not
\* exist; one whose notes.json is the beginning of the text of a list (a save
\* that did not end).
Dirs ==
    { NewDir,
      [f \in Files |->
        IF f = notes_file
        THEN JsonText(<< OldNote(0, S_AppleQ4, 0),
                         Undated(OldNote(-1, S_AppleEarningsBeat, 0)) >>)
        ELSE JsonText(<<>>)],
      [f \in Files |->
        IF f = notes_file
        THEN JsonText(<< OldNote(0, S_AppleQ4, NoneStamp),
                         OldNote(-1, S_AppleEarningsBeat, TextStamp) >>)
        ELSE JsonText(<<>>)],
      [f \in Files |->
        IF f = notes_file THEN EmptyFile
        ELSE IF f = articles_file THEN JsonText(<<OldArticle>>)
        ELSE Absent],
      [f \in Files |->
        IF f = notes_file THEN Truncated(<<OldNote(0, S_AppleQ4, 0)>>)
        ELSE IF f = articles_file THEN JsonText(<<OldArticle>>)
        ELSE JsonText(<<>>)] }

\* The field_updates mappings of the update calls.
UpdateInputs ==
    { [tags |-> <<S_X>>] }
    \cup { [id |-> i] : i \in KnownIds \ {0} }
    \cup { [type |-> "article"] }
    \cup { [created_at |-> 90] }
    \cup { [title |-> S_Draft, rating |-> S_X] }

(***************************************************************************)
(* The operations of KnowledgeBase.  Each returns, or is, the whole call:  *)
(* the files after it and what the caller gets: a value, or an exception   *)
(* (raised), and the lines logged at level ERROR.                          *)
(***************************************************************************)
Returned(op, args, value, log) ==
    [op |-> op, args |-> args, at |-> now, raised |-> FALSE, value |-> value,
     log |-> log]

Raised(op, args, log) ==
    [op |-> op, args |-> args, at |-> now, raised |-> TRUE, value |-> None,
     log |-> log]

\* The dict add_note builds.
note_dict(x) ==
    [id |-> uuid4, type |-> "note", title |-> x.title, content |-> x.content,
     tags |-> OrEmpty(x.tags), related_tickers |-> OrEmpty(x.related_tickers),
     created_at |-> isoformat_now, updated_at |-> isoformat_now]

\* The dict add_article builds.
article_dict(x) ==
    [id |-> uuid4, type |-> "article", title |-> x.title, url |-> x.url,
     summary |-> x.summary, content |-> x.content,
     tags |-> OrEmpty(x.tags), related_tickers |-> OrEmpty(x.related_tickers),
     created_at |-> isoformat_now, updated_at |-> isoformat_now]

\* The dict add_research builds.
research_dict(x) ==
    [id |-> uuid4, type |-> "research", title |-> x.title, content |-> x.content,
     source |-> x.source,
     tags |-> OrEmpty(x.tags), related_tickers |-> OrEmpty(x.related_tickers),
     created_at |-> isoformat_now, updated_at |-> isoformat_now]

\* The body the three add methods share: load, append, save, return the id;
\* an exception is logged and raised again.
add_item(op, file_path, x, item) ==
    LET items == _load_data(fs, file_path)
        saved == _save_data(fs, file_path, Append(items, item))
    IN  /\ nextUuid <= MaxUuid
        /\ nextUuid' = nextUuid + 1
        /\ fs' = saved.files
        /\ ret' = IF saved.raised
                  THEN Raised(op, x, saved.log \cup load_errors(fs, {file_path})
                                     \cup {"Error adding"})
                  ELSE Returned(op, x, item.id, load_errors(fs, {file_path}))
        /\ UNCHANGED <<nUpdates, now, writable, deleted, th, stock>>

add_note(x) == add_item("add_note", notes_file, x, note_dict(x))

add_article(x) == add_item("add_article", articles_file, x, article_dict(x))

add_research(x) == add_item("add_research", research_file, x, research_dict(x))

\* One file for the items of every type.
file_of_notes(item_type) == notes_file

\* item_type to file_path, as update_item and delete_item choose it
file_of(item_type) ==
    CASE item_type = "notes" -> notes_file
      [] item_type = "articles" -> articles_file
      [] item_type = "research" -> research_file

\* A loop that is left with its last index when no item has the id.
first_with_id_or_last(items, item_id) ==
    IF \E i \in 1..Len(items) : items[i].id = item_id
    THEN CHOOSE i \in 1..Len(items) :
            /\ items[i].id = item_id
            /\ \A j \in 1..(i - 1) : items[j].id # item_id
    ELSE Len(items)

\* for i, item in enumerate(items): if item['id'] == item_id: the first such i,
\* 0 when the loop ends without one
first_with_id(items, item_id) ==
    IF \E i \in 1..Len(items) : items[i].id = item_id
    THEN CHOOSE i \in 1..Len(items) :
            /\ items[i].id = item_id
            /\ \A j \in 1..(i - 1) : items[j].id # item_id
    ELSE 0

\* An update that stores every key of updates, those the item lacks as well.
apply_updates_adding(item, updates) ==
    [k \in DOMAIN item \cup DOMAIN updates |->
        IF k = "updated_at" THEN isoformat_now
        ELSE IF k \in DOMAIN updates THEN updates[k]
        ELSE item[k]]

\* An update that refreshes both timestamps.
apply_updates_both_stamps(item, updates) ==
    [k \in DOMAIN item |->
        IF k \in {"created_at", "updated_at"} THEN isoformat_now
        ELSE IF k \in DOMAIN updates THEN updates[k]
        ELSE item[k]]

\* for key, value in updates.items(): if key in item: item[key] = value;
\* then item['updated_at'] = now
apply_updates(item, updates) ==
    [k \in DOMAIN item |->
        IF k = "updated_at" THEN isoformat_now
        ELSE IF k \in DOMAIN updates THEN updates[k]
        ELSE item[k]]

update_item(item_id, updates, item_type) ==
    LET args == [item_id |-> item_id, updates |-> updates, item_type |-> item_type]
    IN  /\ nUpdates < MaxUpdates
        /\ nUpdates' = nUpdates + 1
        /\ UNCHANGED <<nextUuid, now, writable, deleted, th, stock>>
        /\ IF item_type \notin ItemTypes
           THEN /\ fs' = fs
                /\ ret' = Returned("update_item", args, FALSE, {})
           ELSE LET file_path == file_of(item_type)
                    items == _load_data(fs, file_path)
                    i == first_with_id(items, item_id)
                IN  IF i = 0
                    THEN /\ fs' = fs
                         /\ ret' = Returned("update_item", args, FALSE, {})
                    ELSE LET saved == _save_data(fs, file_path,
                                 [items EXCEPT ![i] = apply_updates(items[i], updates)])
                         IN  /\ fs' = saved.files
                             /\ ret' = IF saved.raised
                                       THEN Returned("update_item", args, FALSE,
                                                saved.log \cup {"Error updating item"})
                                       ELSE Returned("update_item", args, TRUE, {})

\* [item for item in items if item['id'] != item_id]
without_id(items, item_id) == SelectSeq(items, LAMBDA item : item.id # item_id)

delete_item(item_id, item_type) ==
    LET args == [item_id |-> item_id, item_type |-> item_type]
    IN  /\ UNCHANGED <<nextUuid, nUpdates, now, writable, th, stock>>
        /\ IF item_type \notin ItemTypes
           THEN /\ fs' = fs
                /\ ret' = Returned("delete_item", args, FALSE, {})
           ELSE LET file_path == file_of(item_type)
                    items == _load_data(fs, file_path)
                    kept == without_id(items, item_id)
                IN  IF Len(kept) < Len(items)
                    THEN LET saved == _save_data(fs, file_path, kept)
                         IN  /\ fs' = saved.files
                             /\ ret' = IF saved.raised
                                       THEN Returned("delete_item", args, FALSE,
                                                saved.log \cup {"Error deleting item"})
                                       ELSE Returned("delete_item", args, TRUE, {})
                    ELSE /\ fs' = fs
                         /\ ret' = Returned("delete_item", args, FALSE, {})
        /\ deleted' = IF ret'.value
                      THEN deleted \cup {<<item_id, item_type>>}
                      ELSE deleted

\* The (collection_name, file_path) pairs in the order get_item, get_all_items
\* and search_knowledge_base go through them.
Collections ==
    << <<"notes", notes_file>>, <<"articles", articles_file>>,
       <<"research", research_file>> >>

\* A get_item that looks into the notes only when no type is given.
get_item_notes_only(files, item_id, item_type) ==
    LET file_path == IF item_type = "None" THEN notes_file ELSE file_of(item_type)
        i == first_with_id(_load_data(files, file_path), item_id)
    IN  IF i = 0
        THEN [found |-> FALSE, item |-> <<>>]
        ELSE [found |-> TRUE, item |-> _load_data(files, file_path)[i]]

\* A get_item that goes through the collections from the last to the first.
get_item_research_first(files, item_id, item_type) ==
    LET hits == [c \in 1..3 |->
                    IF item_type = Collections[c][1] \/ item_type = "None"
                    THEN first_with_id(_load_data(files, Collections[c][2]), item_id)
                    ELSE 0]
    IN  IF \A c \in 1..3 : hits[c] = 0
        THEN [found |-> FALSE, item |-> <<>>]
        ELSE LET c == CHOOSE c \in 1..3 : hits[c] # 0 /\ \A d \in (c + 1)..3 : hits[d] = 0
             IN  [found |-> TRUE, item |-> _load_data(files, Collections[c][2])[hits[c]]]

\* get_item: the first item with the id in the collections the type names (all
\* three when it is None), as [found, item]; found = FALSE is Python's None
get_item(files, item_id, item_type) ==
    LET hits == [c \in 1..3 |->
                    IF item_type = Collections[c][1] \/ item_type = "None"
                    THEN first_with_id(_load_data(files, Collections[c][2]), item_id)
                    ELSE 0]
    IN  IF \A c \in 1..3 : hits[c] = 0
        THEN [found |-> FALSE, item |-> <<>>]
        ELSE LET c == CHOOSE c \in 1..3 : hits[c] # 0 /\ \A d \in 1..(c - 1) : hits[d] = 0
             IN  [found |-> TRUE, item |-> _load_data(files, Collections[c][2])[hits[c]]]

\* A get_all_items that puts the articles before the notes.
get_all_items_articles_first(files, item_type) ==
    CASE item_type = "notes" -> _load_data(files, notes_file)
      [] item_type = "articles" -> _load_data(files, articles_file)
      [] item_type = "research" -> _load_data(files, research_file)
      [] item_type = "all" -> _load_data(files, articles_file)
                              \o _load_data(files, notes_file)
                              \o _load_data(files, research_file)
      [] OTHER -> <<>>

\* get_all_items
get_all_items(files, item_type) ==
    CASE item_type = "notes" -> _load_data(files, notes_file)
      [] item_type = "articles" -> _load_data(files, articles_file)
      [] item_type = "research" -> _load_data(files, research_file)
      [] item_type = "all" -> _load_data(files, notes_file)
                              \o _load_data(files, articles_file)
                              \o _load_data(files, research_file)
      [] OTHER -> <<>>

(***************************************************************************)
(* Search.  A search that raises is a record with raised = TRUE; scores    *)
(* are in tenths.                                                          *)
(***************************************************************************)
\* x.lower() raises AttributeError when x is None
LowerRaises(x) == x = None

\* _matches_search: [raised, value]
_matches_search(item, query, ticker, tags) ==
    LET title == Get(item, "title", EmptyStr)
        content == Get(item, "content", EmptyStr)
        summary == Get(item, "summary", EmptyStr)
    IN  IF LowerRaises(title) \/ LowerRaises(content) \/ LowerRaises(summary)
        THEN [raised |-> TRUE, value |-> FALSE]
        ELSE LET query_lower == lower(query)
                 title_match == Contains(query_lower, lower(title))
                 content_match == Contains(query_lower, lower(content))
                 summary_match == Contains(query_lower, lower(summary))
                 ticker_match ==
                    IF ticker # None /\ ticker # EmptyStr
                    THEN Member(upper(ticker),
                                MapUpper(Get(item, "related_tickers", <<>>)))
                    ELSE TRUE
                 tags_match ==
                    IF tags # NoneList /\ tags # <<>>
                    THEN LET item_tags == MapLower(Get(item, "tags", <<>>))
                             search_tags == MapLower(tags)
                         IN  \E i \in 1..Len(search_tags) :
                                Member(search_tags[i], item_tags)
                    ELSE TRUE
             IN  [raised |-> FALSE,
                  value |-> (title_match \/ content_match \/ summary_match)
                            /\ ticker_match /\ tags_match]

TitleWeight == 30
ContentWeight == 10
SummaryWeight == 15
RecentDays == 30
RecentBonus == 5
OlderDays == 90
OlderBonus == 2

\* The weight of the first term of the query only.
TermScore_first(query_terms, text, weight) ==
    IF query_terms # <<>> /\ Contains(Head(query_terms), text) THEN weight ELSE 0

\* The weight once for the query, whatever the number of its terms in the text.
TermScore_once(query_terms, text, weight) ==
    IF \E i \in 1..Len(query_terms) : Contains(query_terms[i], text)
    THEN weight ELSE 0

\* for term in query_terms: if term in text: score += weight
RECURSIVE TermScore(_, _, _)
TermScore(query_terms, text, weight) ==
    IF query_terms = <<>> THEN 0
    ELSE (IF Contains(Head(query_terms), text) THEN weight ELSE 0)
         + TermScore(Tail(query_terms), text, weight)

\* A recency bonus that loses a tenth with every day of the first month.
recency_bonus_decaying(item) ==
    LET created_at == Get(item, "created_at", EmptyStamp)
        days_old == now - created_at
    IN  IF fromisoformat_raises(created_at) THEN 0
        ELSE IF days_old < RecentDays
        THEN (IF days_old < RecentBonus THEN RecentBonus - days_old ELSE 0)
        ELSE IF days_old < OlderDays THEN OlderBonus
        ELSE 0

\* A recency bonus that takes a created_at that is no timestamp for the day 0.
recency_bonus_from_epoch(item) ==
    LET created_at == Get(item, "created_at", EmptyStamp)
        days_old == IF fromisoformat_raises(created_at) THEN now ELSE now - created_at
    IN  IF days_old < RecentDays THEN RecentBonus
        ELSE IF days_old < OlderDays THEN OlderBonus
        ELSE 0

\* The recency bonus of _calculate_relevance: none when fromisoformat raises
\* (the bare except passes)
recency_bonus(item) ==
    LET created_at == Get(item, "created_at", EmptyStamp)
        days_old == now - created_at
    IN  IF fromisoformat_raises(created_at) THEN 0
        ELSE IF days_old < RecentDays THEN RecentBonus
        ELSE IF days_old < OlderDays THEN OlderBonus
        ELSE 0

\* _calculate_relevance: [raised, value]
_calculate_relevance(item, query) ==
    LET title == Get(item, "title", EmptyStr)
        content == Get(item, "content", EmptyStr)
        summary == Get(item, "summary", EmptyStr)
    IN  IF LowerRaises(title) \/ LowerRaises(content) \/ LowerRaises(summary)
        THEN [raised |-> TRUE, value |-> 0]
        ELSE LET query_terms == split(lower(query))
             IN  [raised |-> FALSE,
                  value |-> TermScore(query_terms, lower(title), TitleWeight)
                            + TermScore(query_terms, lower(content), ContentWeight)
                            + TermScore(query_terms, lower(summary), SummaryWeight)
                            + recency_bonus(item)]

\* The (collection_name, file_path) pairs search_knowledge_base searches.
collections_of(search_type) ==
    (IF search_type \in {"all", "notes"} THEN << <<"notes", notes_file>> >> ELSE <<>>)
    \o (IF search_type \in {"all", "articles"}
        THEN << <<"articles", articles_file>> >> ELSE <<>>)
    \o (IF search_type \in {"all", "research"}
        THEN << <<"research", research_file>> >> ELSE <<>>)

\* The items of the searched collections, each with its collection_name, in
\* the order the two loops visit them.
RECURSIVE visited(_, _)
visited(files, collections) ==
    IF collections = <<>> THEN <<>>
    ELSE LET items == _load_data(files, Head(collections)[2])
         IN  [i \in 1..Len(items) |->
                    [item |-> items[i], collection |-> Head(collections)[1]]]
             \o visited(files, Tail(collections))

\* item['relevance_score'] = ...; item['collection'] = collection_name
annotate(item, score, collection_name) ==
    [k \in DOMAIN item \cup {"relevance_score", "collection"} |->
        IF k = "relevance_score" THEN score
        ELSE IF k = "collection" THEN collection_name
        ELSE item[k]]

\* An insertion that puts a result before the results of the same score.
RECURSIVE insert_desc_ties_first(_, _)
insert_desc_ties_first(sorted, x) ==
    IF sorted = <<>> THEN <<x>>
    ELSE IF Head(sorted).relevance_score > x.relevance_score
         THEN <<Head(sorted)>> \o insert_desc_ties_first(Tail(sorted), x)
         ELSE <<x>> \o sorted

\* results.sort(key=relevance_score, reverse=True): a stable sort, equal scores
\* keep their order
RECURSIVE insert_desc(_, _)
insert_desc(sorted, x) ==
    IF sorted = <<>> THEN <<x>>
    ELSE IF Head(sorted).relevance_score >= x.relevance_score
         THEN <<Head(sorted)>> \o insert_desc(Tail(sorted), x)
         ELSE <<x>> \o sorted

RECURSIVE sort_desc(_)
sort_desc(results) ==
    IF results = <<>> THEN <<>>
    ELSE insert_desc(sort_desc(SubSeq(results, 1, Len(results) - 1)),
                     results[Len(results)])

\* The results list of search_knowledge_base before the sort: the visited
\* items that match, each with its score and its collection_name.  checked[i]
\* and scored[i] are what _matches_search and _calculate_relevance gave for the
\* i-th visited item.
matching(seen, checked, scored) ==
    LET hits == SelectSeq([i \in 1..Len(seen) |-> i], LAMBDA i : checked[i].value)
    IN  [n \in 1..Len(hits) |->
            annotate(seen[hits[n]].item, scored[hits[n]].value,
                     seen[hits[n]].collection)]

\* A handler that returns the results gathered when their search raised.
on_search_error_partial(results) == results

\* except Exception: log, return []
on_search_error(results) == <<>>

\* A search that writes the items it has annotated back to their files.
search_knowledge_base_saving(files, query, search_type, ticker, tags) ==
    LET seen == visited(files, collections_of(search_type))
        checked == [i \in 1..Len(seen) |->
                        _matches_search(seen[i].item, query, ticker, tags)]
        scored == [i \in 1..Len(seen) |->
                        IF ~checked[i].raised /\ checked[i].value
                        THEN _calculate_relevance(seen[i].item, query)
                        ELSE [raised |-> FALSE, value |-> 0]]
        results == matching(seen, checked, scored)
    IN  IF \E i \in 1..Len(seen) : checked[i].raised \/ scored[i].raised
        THEN [value |-> <<>>, log |-> {"Error searching knowledge base"},
              files |-> files]
        ELSE [value |-> sort_desc(results), log |-> {},
              files |-> [f \in Files |->
                            IF \E i \in 1..Len(results) :
                                    file_of(results[i].collection) = f
                            THEN JsonText(SelectSeq(results,
                                    LAMBDA r : file_of(r.collection) = f))
                            ELSE files[f]]]

\* search_knowledge_base: the sorted results, [] when anything raised; the
\* files are as they were
search_knowledge_base(files, query, search_type, ticker, tags) ==
    LET collections == collections_of(search_type)
        seen == visited(files, collections)
        checked == [i \in 1..Len(seen) |->
                        _matches_search(seen[i].item, query, ticker, tags)]
        scored == [i \in 1..Len(seen) |->
                        IF ~checked[i].raised /\ checked[i].value
                        THEN _calculate_relevance(seen[i].item, query)
                        ELSE [raised |-> FALSE, value |-> 0]]
        loaded == load_errors(files, {collections[c][2] : c \in 1..Len(collections)})
    IN  IF \E i \in 1..Len(seen) : checked[i].raised \/ scored[i].raised
        THEN [value |-> on_search_error(matching(seen, checked, scored)),
              log |-> loaded \cup {"Error searching knowledge base"},
              files |-> files]
        ELSE [value |-> sort_desc(matching(seen, checked, scored)), log |-> loaded,
              files |-> files]

\* The search calls.
SearchInputs ==
    { [query |-> S_Apple, search_type |-> "all", ticker |-> S_AAPL, tags |-> NoneList],
      [query |-> S_Apple, search_type |-> "all", ticker |-> None, tags |-> NoneList],
      [query |-> S_SalesUp, search_type |-> "notes", ticker |-> None, tags |-> NoneList],
      [query |-> S_SalesUp, search_type |-> "articles", ticker |-> None,
       tags |-> NoneList],
      [query |-> EmptyStr, search_type |-> "all", ticker |-> S_aapl,
       tags |-> <<S_EarningsCap>>],
      [query |-> S_Apple, search_type |-> "all", ticker |-> None, tags |-> <<S_X>>],
      [query |-> S_Apple, search_type |-> "all", ticker |-> None, tags |-> <<>>] }

Search ==
    \E q \in SearchInputs :
        \E found \in {search_knowledge_base(fs, q.query, q.search_type, q.ticker, q.tags)} :
            /\ ret' = Returned("search_knowledge_base", q, found.value, found.log)
            /\ fs' = found.files
            /\ UNCHANGED <<nextUuid, nUpdates, now, writable, deleted, th, stock>>

(***************************************************************************)
(* The environment: time passes, and the storage medium stops and starts   *)
(* being writable.                                                         *)
(***************************************************************************)
Pass(instants) ==
    /\ \E t \in instants : t > now /\ now' = t
    /\ UNCHANGED <<fs, nextUuid, nUpdates, writable, ret, deleted, th, stock>>

\* The next call is made at any later instant of Clock.
Tick == Pass(Clock)

\* The next call is made a month later.
NextMonth == Pass({30})

MediumChange ==
    /\ writable' = ~writable
    /\ UNCHANGED <<fs, nextUuid, nUpdates, now, ret, deleted, th, stock>>

(***************************************************************************)
(* Two threads on one KnowledgeBase: w makes add calls, whose _save_data   *)
(* runs step by step (open(file_path, 'w') truncates the file, json.dump   *)
(* writes the text, which reaches the file in pieces or at the close), and *)
(* r makes get_all_items calls of one type and search calls, whose         *)
(* _load_data reads the file as it is at that moment.                      *)
(***************************************************************************)
IdleWriter ==
    [pc |-> "idle", op |-> "none", args |-> None, id |-> 0, file_path |-> "",
     data |-> <<>>, old |-> <<>>, written |-> 0]

NoRead == [file_path |-> "", saving |-> FALSE, old |-> <<>>, new |-> <<>>]

\* An add method up to its call of _save_data: the dict is built, the
\* collection loaded and the dict appended to it.
add_begin(op, file_path, x, item) ==
    /\ th.w.pc = "idle"
    /\ nextUuid <= MaxUuid
    /\ nextUuid' = nextUuid + 1
    /\ th' = [th EXCEPT !.w =
                [pc |-> "save", op |-> op, args |-> x, id |-> item.id,
                 file_path |-> file_path,
                 data |-> Append(_load_data(fs, file_path), item),
                 old |-> <<>>, written |-> 0]]
    /\ UNCHANGED <<fs, nUpdates, now, writable, ret, deleted, stock>>

\* _save_data: open(file_path, 'w') leaves the file empty; on an unwritable
\* medium it raises, and the add method raises in its turn.
save_open ==
    /\ th.w.pc = "save"
    /\ IF writable
       THEN /\ fs' = [fs EXCEPT ![th.w.file_path] = EmptyFile]
            /\ th' = [th EXCEPT !.w.pc = "dump",
                                !.w.old = _load_data(fs, th.w.file_path)]
            /\ ret' = ret
       ELSE /\ fs' = fs
            /\ th' = [th EXCEPT !.w = IdleWriter]
            /\ ret' = Raised(th.w.op, th.w.args,
                             {"Error saving data", "Error adding"})
    /\ UNCHANGED <<nextUuid, nUpdates, now, writable, deleted, stock>>

\* _save_data: json.dump has written one more item and it has reached the file.
save_write ==
    /\ th.w.pc = "dump"
    /\ th.w.written < Len(th.w.data)
    /\ fs' = [fs EXCEPT ![th.w.file_path].items =
                            Append(@, th.w.data[th.w.written + 1])]
    /\ th' = [th EXCEPT !.w.written = @ + 1]
    /\ UNCHANGED <<nextUuid, nUpdates, now, writable, ret, deleted, stock>>

\* _save_data: the with block ends, the whole text is in the file; the add
\* method returns the id.
save_close ==
    /\ th.w.pc = "dump"
    /\ fs' = [fs EXCEPT ![th.w.file_path] = JsonText(th.w.data)]
    /\ th' = [th EXCEPT !.w = IdleWriter]
    /\ ret' = Returned(th.w.op, th.w.args, th.w.id, {})
    /\ UNCHANGED <<nextUuid, nUpdates, now, writable, deleted, stock>>

\* get_all_items(item_type) of thread r.  th.r keeps what the call ran
\* beside: whether a save of the same file was between its open and its close,
\* and the collection before that save and the one it writes.
get_all_items_in_thread(item_type) ==
    LET file_path == file_of(item_type)
    IN  /\ ret' = Returned("get_all_items", [item_type |-> item_type],
                           get_all_items(fs, item_type),
                           IF fs[file_path].closed THEN {}
                           ELSE {"Error loading data"})
        /\ th' = [th EXCEPT !.r =
                    [file_path |-> file_path,
                     saving |-> th.w.pc = "dump" /\ th.w.file_path = file_path,
                     old |-> th.w.old, new |-> th.w.data]]
        /\ UNCHANGED <<fs, nextUuid, nUpdates, now, writable, deleted, stock>>

BeginAddNote == \E x \in NoteInputs : add_begin("add_note", notes_file, x, note_dict(x))
BeginAddArticle ==
    \E x \in ArticleInputs : add_begin("add_article", articles_file, x, article_dict(x))
BeginAddResearch ==
    \E x \in ResearchInputs :
        add_begin("add_research", research_file, x, research_dict(x))
ReadAll == \E item_type \in ItemTypes : get_all_items_in_thread(item_type)

NextConc ==
    \/ BeginAddNote
    \/ BeginAddArticle
    \/ BeginAddResearch
    \/ save_open
    \/ save_write
    \/ save_close
    \/ ReadAll
    \/ Search

(***************************************************************************)
(* Two callers of add_*, update_item and delete_item at once.  A call runs *)
(* in two steps: up to its _save_data (the collection is loaded and the    *)
(* list to save is made from it), then _save_data and the return.  th.c[t] *)
(* is the call of caller t; its field missed keeps, while the call is      *)
(* between its load and its save, the calls that saved the same file in    *)
(* the meantime, and its field overwrote keeps them once it has saved;     *)
(* calls counts the calls the caller has made.                             *)
(***************************************************************************)
Callers == {"a", "b"}

IdleCaller ==
    [pc |-> "idle", op |-> "none", args |-> None, value |-> None, file_path |-> "",
     data |-> <<>>, missed |-> {}, overwrote |-> {}, calls |-> 0]

\* The caller between two calls, one more call made.
returned_at_once(t) == [IdleCaller EXCEPT !.calls = th.c[t].calls + 1]

\* The ids the add calls have returned: a caller can name no other.
ReturnedIds ==
    KnownIds \ { th.c[t].value :
                    t \in { u \in Callers :
                            /\ th.c[u].pc = "loaded"
                            /\ th.c[u].op \in {"add_note", "add_article", "add_research"} } }

\* A call up to its _save_data: data is the list it will save, value what it
\* will return.
race_load(t, op, args, value, file_path, data) ==
    /\ th.c[t].pc = "idle"
    /\ th.c[t].calls < MaxCalls
    /\ th' = [th EXCEPT !.c[t] =
                [pc |-> "loaded", op |-> op, args |-> args, value |-> value,
                 file_path |-> file_path, data |-> data, missed |-> {},
                 overwrote |-> {}, calls |-> th.c[t].calls + 1]]

\* An add method up to its _save_data.
race_add(t, op, file_path, x, item) ==
    /\ nextUuid <= MaxUuid
    /\ nextUuid' = nextUuid + 1
    /\ race_load(t, op, x, item.id, file_path, Append(_load_data(fs, file_path), item))
    /\ UNCHANGED <<fs, nUpdates, now, writable, ret, deleted, stock>>

\* update_item up to its _save_data, and the whole of it when it saves nothing.
race_update(t, item_id, updates, item_type) ==
    LET args == [item_id |-> item_id, updates |-> updates, item_type |-> item_type]
        file_path == file_of(item_type)
        items == _load_data(fs, file_path)
        i == first_with_id(items, item_id)
    IN  /\ nUpdates < MaxUpdates
        /\ nUpdates' = nUpdates + 1
        /\ th.c[t].pc = "idle"
        /\ th.c[t].calls < MaxCalls
        /\ IF i = 0
           THEN /\ ret' = Returned("update_item", args, FALSE, {})
                /\ th' = [th EXCEPT !.c[t] = returned_at_once(t)]
           ELSE /\ ret' = ret
                /\ race_load(t, "update_item", args, TRUE, file_path,
                             [items EXCEPT ![i] = apply_updates(items[i], updates)])
        /\ UNCHANGED <<fs, nextUuid, now, writable, deleted, stock>>

\* delete_item up to its _save_data, and the whole of it when it saves nothing.
race_delete(t, item_id, item_type) ==
    LET args == [item_id |-> item_id, item_type |-> item_type]
        file_path == file_of(item_type)
        items == _load_data(fs, file_path)
        kept == without_id(items, item_id)
    IN  /\ th.c[t].pc = "idle"
        /\ th.c[t].calls < MaxCalls
        /\ IF Len(kept) < Len(items)
           THEN /\ ret' = ret
                /\ race_load(t, "delete_item", args, TRUE, file_path, kept)
           ELSE /\ ret' = Returned("delete_item", args, FALSE, {})
                /\ th' = [th EXCEPT !.c[t] = returned_at_once(t)]
        /\ UNCHANGED <<fs, nextUuid, nUpdates, now, writable, deleted, stock>>

\* _save_data of the list the call made, and the return of the call.
race_save(t) ==
    LET c == th.c[t]
        saved == _save_data(fs, c.file_path, c.data)
        done == [op |-> c.op, args |-> c.args, value |-> c.value]
    IN  /\ c.pc = "loaded"
        /\ fs' = saved.files
        /\ ret' = IF ~saved.raised THEN Returned(c.op, c.args, c.value, {})
                  ELSE IF c.op \in {"update_item", "delete_item"}
                  THEN Returned(c.op, c.args, FALSE, saved.log \cup {"Error in item"})
                  ELSE Raised(c.op, c.args, saved.log \cup {"Error adding"})
        /\ th' = [th EXCEPT !.c =
                    [u \in Callers |->
                        IF u = t
                        THEN [IdleCaller EXCEPT !.overwrote = c.missed,
                                                !.calls = c.calls]
                        ELSE IF th.c[u].pc = "loaded"
                                /\ th.c[u].file_path = c.file_path
                                /\ ~saved.raised
                        THEN [th.c[u] EXCEPT !.missed = @ \cup {done}]
                        ELSE th.c[u]]]
        /\ deleted' = IF c.op = "delete_item" /\ ~saved.raised
                      THEN deleted \cup {<<c.args.item_id, c.args.item_type>>}
                      ELSE deleted
        /\ UNCHANGED <<nextUuid, nUpdates, now, writable, stock>>

RaceAddNote ==
    \E t \in Callers, x \in NoteInputs :
        race_add(t, "add_note", notes_file, x, note_dict(x))
RaceAddArticle ==
    \E t \in Callers, x \in ArticleInputs :
        race_add(t, "add_article", articles_file, x, article_dict(x))
RaceAddResearch ==
    \E t \in Callers, x \in ResearchInputs :
        race_add(t, "add_research", research_file, x, research_dict(x))
RaceUpdate ==
    \E t \in Callers, item_id \in ReturnedIds \ {0}, item_type \in ItemTypes :
        \E updates \in { u \in UpdateInputs : "id" \in DOMAIN u => u.id \in ReturnedIds } :
            race_update(t, item_id, updates, item_type)
RaceDelete ==
    \E t \in Callers, item_id \in ReturnedIds \ {0}, item_type \in ItemTypes :
        race_delete(t, item_id, item_type)
RaceSave == \E t \in Callers : race_save(t)

NextRace ==
    \/ RaceAddNote
    \/ RaceAddArticle
    \/ RaceAddResearch
    \/ RaceUpdate
    \/ RaceDelete
    \/ RaceSave

(***************************************************************************)
(* The StockDataProvider (src/stock_data.py).  stock.cache is self.cache,  *)
(* a dict from tickers to the data fetched for them; stock.fetched keeps,  *)
(* in order, the fetches made of the external provider since the cache was *)
(* last empty by construction or by clear_cache: for which ticker          *)
(* get_stock_data was asked and whether the fetch succeeded.               *)
(***************************************************************************)
NewProvider == [cache |-> [t \in {} |-> None], fetched |-> <<>>]

\* The tickers get_stock_data is called with.
TickerInputs == {S_AAPL, S_aapl, S_aapl_spaced, S_MSFT, None}

\* A cleaning that leaves the whitespace around the ticker.
clean_upper_only(ticker) == upper(ticker)

\* ticker.upper().strip()
clean(ticker) == strip(upper(ticker))

\* The dict of a successful fetch, and the one returned when anything raised.
stock_data(ticker) == [ticker |-> ticker, last_updated |-> now]
error_data(ticker) ==
    [ticker |-> ticker, error |-> "Failed to fetch data", last_updated |-> now]

\* get_stock_data(ticker); fetch_ok is whether the calls of the external
\* provider, when they are made, all return.  None has no upper(): the except
\* branch returns the error dict without a fetch.  A ticker in the cache is
\* answered from it; another is fetched, and cached when the fetch succeeded.
get_stock_data(ticker, fetch_ok) ==
    LET args == [ticker |-> ticker]
    IN  /\ UNCHANGED <<fs, nextUuid, nUpdates, now, writable, deleted, th>>
        /\ IF ticker = None
           THEN /\ ret' = Returned("get_stock_data", args, error_data(ticker),
                                   {"Error fetching data"})
                /\ stock' = stock
           ELSE IF clean(ticker) \in DOMAIN stock.cache
           THEN /\ ret' = Returned("get_stock_data", args,
                                   stock.cache[clean(ticker)], {})
                /\ stock' = stock
           ELSE /\ Len(stock.fetched) < MaxFetches
                /\ IF fetch_ok
                   THEN /\ ret' = Returned("get_stock_data", args,
                                           stock_data(clean(ticker)), {})
                        /\ stock' =
                            [cache |-> [t \in DOMAIN stock.cache \cup {clean(ticker)} |->
                                            IF t = clean(ticker)
                                            THEN stock_data(clean(ticker))
                                            ELSE stock.cache[t]],
                             fetched |-> Append(stock.fetched,
                                                [asked |-> ticker, ok |-> TRUE])]
                   ELSE /\ ret' = Returned("get_stock_data", args,
                                           error_data(clean(ticker)),
                                           {"Error fetching data"})
                        /\ stock' = [stock EXCEPT !.fetched =
                                        Append(@, [asked |-> ticker, ok |-> FALSE])]

\* clear_cache()
clear_cache ==
    /\ stock' = NewProvider
    /\ ret' = Returned("clear_cache", None, None, {})
    /\ UNCHANGED <<fs, nextUuid, nUpdates, now, writable, deleted, th>>

GetStockData ==
    \E ticker \in TickerInputs, fetch_ok \in BOOLEAN : get_stock_data(ticker, fetch_ok)

NextStock ==
    \/ GetStockData
    \/ clear_cache

(***************************************************************************)
(* The knowledge base used by one caller at a time.                        *)
(***************************************************************************)
NoCall ==
    [op |-> "none", args |-> None, at |-> 0, raised |-> FALSE, value |-> None,
     log |-> {}]

Init ==
    /\ fs = _init_storage(NewDir)
    /\ nextUuid = 1
    /\ nUpdates = 0
    /\ now = 0
    /\ writable = TRUE
    /\ ret = NoCall
    /\ deleted = {}
    /\ th = [w |-> IdleWriter, r |-> NoRead, c |-> [t \in Callers |-> IdleCaller]]
    /\ stock = NewProvider

AddNote == \E x \in NoteInputs : add_note(x)
AddArticle == \E x \in ArticleInputs : add_article(x)
AddResearch == \E x \in ResearchInputs : add_research(x)
Update ==
    \E item_id \in KnownIds, updates \in UpdateInputs,
       item_type \in ItemTypes \cup {OtherType} :
        update_item(item_id, updates, item_type)
Delete ==
    \E item_id \in KnownIds, item_type \in ItemTypes \cup {OtherType} :
        delete_item(item_id, item_type)

\* get_item(item_id) and get_item(item_id, item_type); nothing is logged, the
\* files being whole when one caller uses the knowledge base
GetItem ==
    \E item_id \in KnownIds, item_type \in ItemTypes \cup {"None", OtherType} :
        /\ ret' = Returned("get_item", [item_id |-> item_id, item_type |-> item_type],
                            get_item(fs, item_id, item_type), {})
        /\ UNCHANGED <<fs, nextUuid, nUpdates, now, writable, deleted, th, stock>>

\* The files get_all_items(item_type) loads.
files_of(item_type) ==
    IF item_type = "all" THEN Files
    ELSE IF item_type \in ItemTypes THEN {file_of(item_type)}
    ELSE {}

\* get_all_items() and get_all_items(item_type)
GetAllItems ==
    \E item_type \in ItemTypes \cup {"all", OtherType} :
        /\ ret' = Returned("get_all_items", [item_type |-> item_type],
                            get_all_items(fs, item_type),
                            load_errors(fs, files_of(item_type)))
        /\ UNCHANGED <<fs, nextUuid, nUpdates, now, writable, deleted, th, stock>>

\* display_knowledge_base of the application: the items of get_all_items()
\* are listed (no filter set) and the Delete button of one of them is pressed,
\* which calls delete_item(item['id'], item.get('collection', 'notes')).
PressDelete ==
    \E k \in 1..Len(get_all_items(fs, "all")) :
        LET item == get_all_items(fs, "all")[k]
        IN  delete_item(item.id, Get(item, "collection", "notes"))

\* KnowledgeBase(storage_dir) on the directory as it is: the program starts
\* again.  ret.args keeps the directory as it was.
Reopen ==
    /\ fs' = _init_storage(fs)
    /\ ret' = Returned("__init__", fs, None, {})
    /\ UNCHANGED <<nextUuid, nUpdates, now, writable, deleted, th, stock>>

\* The environment: a file of the storage directory is removed.  ret keeps
\* which.
Unlink ==
    /\ \E f \in Files :
            /\ fs[f] # Absent
            /\ fs' = [fs EXCEPT ![f] = Absent]
            /\ ret' = Returned("unlink", [file_path |-> f], None, {})
    /\ UNCHANGED <<nextUuid, nUpdates, now, writable, deleted, th, stock>>

Next ==
    \/ AddNote
    \/ AddArticle
    \/ AddResearch
    \/ Update
    \/ Delete
    \/ NextMonth

Spec == Init /\ [][Next]_vars

(***************************************************************************)
(* The knowledge base filled by add calls and searched.                    *)
(***************************************************************************)
NextSearch ==
    \/ AddNote
    \/ AddArticle
    \/ AddResearch
    \/ Search
    \/ Tick

SpecSearch == Init /\ [][NextSearch]_vars

(***************************************************************************)
(* The knowledge base on a storage medium that fails.                      *)
(***************************************************************************)
NextIO ==
    \/ AddNote
    \/ AddArticle
    \/ AddResearch
    \/ Update
    \/ Delete
    \/ MediumChange

SpecIO == Init /\ [][NextIO]_vars

(***************************************************************************)
(* The knowledge base written, and read by get_item and get_all_items.     *)
(***************************************************************************)
NextRead ==
    \/ AddNote
    \/ AddArticle
    \/ AddResearch
    \/ Update
    \/ Delete
    \/ GetItem
    \/ GetAllItems

SpecRead == Init /\ [][NextRead]_vars

(***************************************************************************)
(* The knowledge base filled by add calls and read by get_item,            *)
(* get_all_items and search_knowledge_base.                                *)
(***************************************************************************)
NextQuery ==
    \/ AddNote
    \/ AddArticle
    \/ AddResearch
    \/ GetItem
    \/ GetAllItems
    \/ Search

SpecQuery == Init /\ [][NextQuery]_vars

(***************************************************************************)
(* The knowledge base made on a storage directory that holds the files of  *)
(* an earlier session, or some of them, or none.                           *)
(***************************************************************************)
InitOpen ==
    \E dir \in Dirs :
        /\ fs = _init_storage(dir)
        /\ nextUuid = 1
        /\ nUpdates = 0
        /\ now = 0
        /\ writable = TRUE
        /\ ret = [op |-> "__init__", args |-> dir, at |-> 0, raised |-> FALSE,
                  value |-> None, log |-> {}]
        /\ deleted = {}
        /\ th = [w |-> IdleWriter, r |-> NoRead, c |-> [t \in Callers |-> IdleCaller]]
        /\ stock = NewProvider

NextOpen ==
    \/ AddNote
    \/ AddArticle
    \/ AddResearch
    \/ GetAllItems
    \/ Reopen
    \/ Unlink

SpecOpen == InitOpen /\ [][NextOpen]_vars

(***************************************************************************)
(* The same knowledge base, filled by add calls and searched.              *)
(***************************************************************************)
NextOld ==
    \/ AddNote
    \/ AddArticle
    \/ AddResearch
    \/ Search

SpecOld == InitOpen /\ [][NextOld]_vars

(***************************************************************************)
(* The knowledge base behind the page of the application that lists the    *)
(* items and deletes them.                                                 *)
(***************************************************************************)
NextApp ==
    \/ AddNote
    \/ AddArticle
    \/ AddResearch
    \/ GetAllItems
    \/ PressDelete

SpecApp == Init /\ [][NextApp]_vars

(***************************************************************************)
(* The market data provider of the application.                            *)
(***************************************************************************)
SpecStock == Init /\ [][NextStock]_vars

(***************************************************************************)
(* The knowledge base used by two threads.                                 *)
(***************************************************************************)
SpecConc == Init /\ [][NextConc]_vars

(***************************************************************************)
(* The knowledge base written by two callers at once.                      *)
(***************************************************************************)
SpecRace == Init /\ [][NextRace]_vars

(***************************************************************************)
(* The same two callers on a knowledge base that opens on a directory an   *)
(* earlier session left: they can also name the ids of the records it      *)
(* stored.                                                                 *)
(***************************************************************************)
\* The ids of the stored records that no uuid4 of this session returned.
OldIds ==
    LET items == get_all_items(fs, "all")
    IN  { id \in { items[k].id : k \in 1..Len(items) } : id <= 0 }

RaceUpdateOld ==
    \E t \in Callers, item_id \in OldIds, item_type \in ItemTypes :
        \E updates \in { u \in UpdateInputs : "id" \in DOMAIN u => u.id \in ReturnedIds } :
            race_update(t, item_id, updates, item_type)

NextRaceOld ==
    \/ RaceAddNote
    \/ RaceAddArticle
    \/ RaceAddResearch
    \/ RaceUpdate
    \/ RaceUpdateOld
    \/ RaceDelete
    \/ RaceSave

\* The directory an earlier session left with one article stored.
StoredDir ==
    [f \in Files |-> IF f = articles_file THEN JsonText(<<OldArticle>>) ELSE Absent]

InitStored ==
    \E dir \in {StoredDir} :
        /\ fs = _init_storage(dir)
        /\ nextUuid = 1
        /\ nUpdates = 0
        /\ now = 0
        /\ writable = TRUE
        /\ ret = [op |-> "__init__", args |-> dir, at |-> 0, raised |-> FALSE,
                  value |-> None, log |-> {}]
        /\ deleted = {}
        /\ th = [w |-> IdleWriter, r |-> NoRead, c |-> [t \in Callers |-> IdleCaller]]
        /\ stock = NewProvider

SpecRaceOld == InitStored /\ [][NextRaceOld]_vars

(***************************************************************************)
(* The properties.                                                         *)
(***************************************************************************)
AddOps == {"add_note", "add_article", "add_research"}

\* A search result without the two keys search adds to it.
Strip(r) == [k \in DOMAIN r \ {"relevance_score", "collection"} |-> r[k]]

\* A text field of a record as the specification reads it: the empty string
\* when the field is absent or null.
TextOf(item, key) ==
    IF key \in DOMAIN item /\ item[key] # None THEN item[key] ELSE EmptyStr

\* C1: whatever add calls have been made (add_note, add_article and
\* add_research, in any mix), no two records stored anywhere in the knowledge
\* base have the same id.
C1_UniqueIds ==
    LET all == get_all_items(fs, "all")
    IN  \A i, j \in 1..Len(all) : i # j => all[i].id # all[j].id

\* Two add calls of different kinds have stored their records.
C1_Witness ==
    /\ Len(_load_data(fs, notes_file)) = 1
    /\ Len(_load_data(fs, articles_file)) + Len(_load_data(fs, research_file)) = 1

\* The matching predicate of the specification.
C2_Matches(item, q) ==
    /\ \E key \in {"title", "content", "summary"} :
            Contains(lower(q.query), lower(TextOf(item, key)))
    /\ q.ticker # None =>
            \E i \in 1..Len(item.related_tickers) :
                upper(item.related_tickers[i]) = upper(q.ticker)
    /\ q.tags # NoneList =>
            \E i \in 1..Len(q.tags), j \in 1..Len(item.tags) :
                lower(q.tags[i]) = lower(item.tags[j])

\* C2: search returns exactly the records of the searched collections that
\* satisfy the matching predicate (the query a case-insensitive substring of
\* title, content or summary, an absent or null field counting as the empty
\* string; the ticker among related_tickers; some requested tag among the tags).
C2_SearchReturnsMatches ==
    ret.op = "search_knowledge_base" =>
        LET seen == visited(fs, collections_of(ret.args.search_type))
            expected == { seen[i].item : i \in { n \in 1..Len(seen) :
                                            C2_Matches(seen[n].item, ret.args) } }
        IN  /\ { Strip(ret.value[i]) : i \in 1..Len(ret.value) } = expected
            /\ Len(ret.value) = Cardinality(expected)

\* The score of the specification for one term.
C10_TermWeight(item, term) ==
    (IF Contains(term, lower(TextOf(item, "title"))) THEN 30 ELSE 0)
    + (IF Contains(term, lower(TextOf(item, "content"))) THEN 10 ELSE 0)
    + (IF Contains(term, lower(TextOf(item, "summary"))) THEN 15 ELSE 0)

RECURSIVE C10_TermsWeight(_, _, _)
C10_TermsWeight(item, terms, n) ==
    IF n = 0 THEN 0
    ELSE C10_TermWeight(item, terms[n]) + C10_TermsWeight(item, terms, n - 1)

\* The score of the specification: the terms' weights and one recency bonus.
C10_Expected(item, query, at) ==
    LET terms == split(lower(query))
        age == at - item.created_at
    IN  C10_TermsWeight(item, terms, Len(terms))
        + (IF age < 30 THEN 5 ELSE IF age < 90 THEN 2 ELSE 0)

\* C10: the relevance score search gives a record is the sum, over the
\* whitespace-delimited lower-cased terms of the query, of 3.0 if the term is in
\* the title, 1.0 if in the content and 1.5 if in the summary, plus one recency
\* bonus: 0.5 if the record was created less than 30 days before the call,
\* else 0.2 if less than 90 days before, else 0.  (Scores are in tenths.)
C10_ScoreIsFormula ==
    ret.op = "search_knowledge_base" =>
        \A i \in 1..Len(ret.value) :
            ret.value[i].relevance_score
                = C10_Expected(ret.value[i], ret.args.query, ret.at)

\* The example: title 'Apple earnings beat', content 'iPhone sales up', created
\* one day before, query 'Apple': 3.5.
C10_Witness ==
    /\ ret.op = "search_knowledge_base"
    /\ ret.args.query = S_Apple
    /\ \E i \in 1..Len(ret.value) :
            /\ ret.value[i].title = S_AppleEarningsBeat
            /\ ret.value[i].content = S_IPhoneSalesUp
            /\ ret.at - ret.value[i].created_at = 1
            /\ ret.value[i].relevance_score = 35

\* The step is an update_item call.
UpdateStep == nUpdates' = nUpdates + 1

\* The step is an add call.
AddStep == nextUuid' = nextUuid + 1

\* The step is a delete_item call.
DeleteStep ==
    /\ ret'.op = "delete_item"
    /\ UNCHANGED <<nextUuid, nUpdates, now, writable>>

\* C3: whatever field names field_updates contains ('id', 'type' and
\* 'created_at' included), the updated record's id, kind and created_at are
\* after an update what they were before it.
C3_UpdateKeepsIdentity ==
    [][ (UpdateStep /\ ret'.value) =>
            LET file_path == file_of(ret'.args.item_type)
                i == first_with_id(_load_data(fs, file_path), ret'.args.item_id)
                before == _load_data(fs, file_path)[i]
                after == _load_data(fs', file_path)[i]
            IN  /\ after.id = before.id
                /\ after.type = before.type
                /\ after.created_at = before.created_at ]_vars

\* C5: when persisting the collection fails, add, update and delete each
\* propagate the failure to the caller instead of returning normally.
C5_SaveFailurePropagates ==
    "Error saving data" \in ret.log => ret.raised

\* The input of an add call lacks a required field: the title is empty, or
\* the content (note, research) or the url (article) is empty or null.
C6_Invalid(op, x) ==
    \/ x.title \in {EmptyStr, None}
    \/ op \in {"add_note", "add_research"} /\ x.content \in {EmptyStr, None}
    \/ op = "add_article" /\ x.url \in {EmptyStr, None}

\* C6: an add with an empty title, or with the field its kind requires empty,
\* raises a validation error and appends no record to any collection.
C6_InvalidAddRaises ==
    [][ (AddStep /\ C6_Invalid(ret'.op, ret'.args)) =>
            (ret'.raised /\ fs' = fs) ]_vars

\* The item_type of the collection an add method writes.
TypeOfAdd(op) ==
    CASE op = "add_note" -> "notes"
      [] op = "add_article" -> "articles"
      [] op = "add_research" -> "research"

\* C7: after add(x) returned an id, get(id), with or without the kind, returns
\* a record whose fields are those of x (an omitted tags or related_tickers
\* being the empty list) and, besides them, only id, type, created_at and
\* updated_at.
C7_RoundTrip ==
    (ret.op \in AddOps /\ ~ret.raised) =>
        \A t \in {"None", TypeOfAdd(ret.op)} :
            LET got == get_item(fs, ret.value, t)
            IN  /\ got.found
                /\ got.item.id = ret.value
                /\ DOMAIN got.item
                     = DOMAIN ret.args \cup {"id", "type", "created_at", "updated_at"}
                /\ \A k \in DOMAIN ret.args :
                        got.item[k] = IF k \in {"tags", "related_tickers"}
                                      THEN OrEmpty(ret.args[k])
                                      ELSE ret.args[k]

\* An article was added to a knowledge base that holds a note, and get without
\* a kind finds it.
C7_Witness ==
    /\ ret.op = "add_article"
    /\ ~ret.raised
    /\ Len(_load_data(fs, notes_file)) = 1
    /\ get_item(fs, ret.value, "None").found
    /\ get_item(fs, ret.value, "None").item.title = S_TechOutlook

\* C8: update(id, {tags: [...]}) that returns True changes the tags and the
\* updated_at of the record it updates and nothing else: not another field of
\* it, not another record of its collection (nor their number or order), not
\* another collection.
C8_UpdatePartial ==
    [][ (UpdateStep /\ ret'.value /\ DOMAIN ret'.args.updates = {"tags"}) =>
            LET file_path == file_of(ret'.args.item_type)
                items == _load_data(fs, file_path)
                after == _load_data(fs', file_path)
                i == first_with_id(items, ret'.args.item_id)
            IN  /\ Len(after) = Len(items)
                /\ \A j \in 1..Len(items) : j # i => after[j] = items[j]
                /\ DOMAIN after[i] = DOMAIN items[i]
                /\ \A k \in DOMAIN items[i] \ {"tags", "updated_at"} :
                        after[i][k] = items[i][k]
                /\ after[i].tags = ret'.args.updates.tags
                /\ after[i].updated_at = now
                /\ \A f \in Files \ {file_path} : fs'[f] = fs[f] ]_vars

\* A tags-only update of one of two notes, a month after they were added.
C8_Witness ==
    /\ ret.op = "update_item"
    /\ ret.value
    /\ DOMAIN ret.args.updates = {"tags"}
    /\ LET notes == _load_data(fs, notes_file)
       IN  /\ Len(notes) = 2
           /\ \E i \in 1..2 :
                /\ notes[i].id = ret.args.item_id
                /\ notes[i].tags = <<S_X>>
                /\ notes[i].updated_at > notes[i].created_at
                /\ notes[3 - i].updated_at = notes[3 - i].created_at

\* C9: once delete(id, kind) has returned True, no later get (of that kind or
\* of none) finds a record with the id, and a second delete(id, kind) returns
\* False and changes nothing, whatever is done to other ids in between; and a
\* delete of an id its collection holds returns True.
C9_DeleteIdempotent ==
    [][ /\ \A p \in deleted' :
            \A t \in {p[2], "None"} : ~get_item(fs', p[1], t).found
        /\ DeleteStep =>
            LET item_id == ret'.args.item_id
                item_type == ret'.args.item_type
            IN  /\ <<item_id, item_type>> \in deleted =>
                        (~ret'.value /\ fs' = fs)
                /\ (item_type \in ItemTypes
                    /\ get_item(fs, item_id, item_type).found) => ret'.value ]_vars

\* The place of a search result in the order search discovers the records:
\* the notes, then the articles, then the research, each in storage order.
C11_Discovered(r, seen) ==
    CHOOSE n \in 1..Len(seen) :
        seen[n].item = Strip(r) /\ seen[n].collection = r.collection

\* C11: the results of a search are in descending order of relevance score,
\* those of equal score in the order of their discovery (notes, articles,
\* research, each in storage order); a search that completes returns every
\* matching record whatever its score, those of score 0 last.
C11_SortedStable ==
    ret.op = "search_knowledge_base" =>
        LET seen == visited(fs, collections_of(ret.args.search_type))
            n == Len(ret.value)
        IN  /\ \A i \in 1..n : \E k \in 1..Len(seen) :
                    seen[k].item = Strip(ret.value[i])
                    /\ seen[k].collection = ret.value[i].collection
            /\ \A i, j \in 1..n : i < j =>
                    /\ ret.value[i].relevance_score >= ret.value[j].relevance_score
                    /\ ret.value[i].relevance_score = ret.value[j].relevance_score
                        => C11_Discovered(ret.value[i], seen)
                            < C11_Discovered(ret.value[j], seen)
            /\ ret.log = {} =>
                    \A k \in 1..Len(seen) :
                        C2_Matches(seen[k].item, ret.args) =>
                            \E i \in 1..n : Strip(ret.value[i]) = seen[k].item

\* A note of score 0 and an article of a higher score: the article comes
\* first, the note is kept and comes last.
C11_Witness ==
    /\ ret.op = "search_knowledge_base"
    /\ Len(ret.value) = 2
    /\ ret.value[1].collection = "articles"
    /\ ret.value[1].relevance_score > 0
    /\ ret.value[2].collection = "notes"
    /\ ret.value[2].relevance_score = 0

\* No stored record carries a tag of the list, compared case-insensitively.
C12_NoRecordCarries(tags) ==
    LET all == get_all_items(fs, "all")
    IN  \A k \in 1..Len(all) :
            \A i \in 1..Len(tags), j \in 1..Len(all[k].tags) :
                lower(tags[i]) # lower(all[k].tags[j])

\* The query of the call is in the title of a stored record, letter case aside.
C12_QueryInSomeTitle ==
    LET all == get_all_items(fs, "all")
    IN  \E k \in 1..Len(all) : Contains(lower(ret.args.query), lower(all[k].title))

C13_Absent(files, item_id, item_type) ==
    item_type \in ItemTypes =>
        LET items == _load_data(files, file_of(item_type))
        IN  \A k \in 1..Len(items) : items[k].id # item_id

\* C13: an update or a delete with an id the named collection does not hold
\* returns False, raises nothing and leaves the three collections as they were.
C13_MissingIdIsNoOp ==
    [][ ((UpdateStep \/ DeleteStep)
         /\ C13_Absent(fs, ret'.args.item_id, ret'.args.item_type)) =>
            (~ret'.raised /\ ret'.value = FALSE /\ fs' = fs) ]_vars

\* An update named the notes with the id of a stored article: it returned
\* False.
C13_Witness ==
    /\ ret.op = "update_item"
    /\ ret.args.item_type = "notes"
    /\ _load_data(fs, notes_file) # <<>>
    /\ C13_Absent(fs, ret.args.item_id, "notes")
    /\ get_item(fs, ret.args.item_id, "articles").found
    /\ ret.value = FALSE

\* C14: in every state add, update and delete calls lead to, every stored
\* record has created_at <= updated_at.
C14_CreatedBeforeUpdated ==
    LET all == get_all_items(fs, "all")
    IN  \A k \in 1..Len(all) : all[k].created_at <= all[k].updated_at

\* The records get searches, in the order it searches them: those of the kind
\* when one is given, the notes, then the articles, then the research when none
\* is.
C15_Searched(item_type) ==
    IF item_type = "None"
    THEN _load_data(fs, notes_file) \o _load_data(fs, articles_file)
            \o _load_data(fs, research_file)
    ELSE IF item_type \in ItemTypes THEN _load_data(fs, file_of(item_type))
    ELSE <<>>

\* C15: get(id, kind) returns the first record with the id in the collection
\* of the kind; get(id) returns the first record with the id among the notes,
\* then the articles, then the research; each returns none when the records it
\* searches hold no such id.
C15_GetSearchOrder ==
    ret.op = "get_item" =>
        LET searched == C15_Searched(ret.args.item_type)
            with_id == { k \in 1..Len(searched) : searched[k].id = ret.args.item_id }
        IN  IF with_id = {}
            THEN ~ret.value.found
            ELSE /\ ret.value.found
                 /\ ret.value.item
                        = searched[CHOOSE k \in with_id : \A l \in with_id : k <= l]

\* A note and an article have the same id; get without a kind returned the
\* note.
C15_Witness ==
    /\ ret.op = "get_item"
    /\ ret.args.item_type = "None"
    /\ \E k \in 1..Len(_load_data(fs, articles_file)) :
            _load_data(fs, articles_file)[k].id = ret.args.item_id
    /\ ret.value.found
    /\ ret.value.item.type = "note"
    /\ ret.value.item.id = ret.args.item_id

\* What list_all returns according to the specification.
C16_Listed(files, item_type) ==
    IF item_type = "all"
    THEN _load_data(files, notes_file) \o _load_data(files, articles_file)
            \o _load_data(files, research_file)
    ELSE IF item_type \in ItemTypes THEN _load_data(files, file_of(item_type))
    ELSE <<>>

\* The records of old that are in new, in the order they have in old.
C16_Survivors(old, new) ==
    SelectSeq(old, LAMBDA r : \E k \in 1..Len(new) : new[k] = r)

\* C16: list_all('all') returns the notes, then the articles, then the
\* research, and list_all of a kind that kind's collection, each in storage
\* order; and the storage order is the order of the add calls: an add puts
\* its record after those of its collection, a delete leaves the remaining
\* records in their order, an update leaves every record at its place.
C16_ListInStorageOrder ==
    [][ /\ ret'.op = "get_all_items" =>
                ret'.value = C16_Listed(fs', ret'.args.item_type)
        /\ (AddStep /\ ~ret'.raised) =>
                LET f == file_of(TypeOfAdd(ret'.op))
                    old == _load_data(fs, f)
                    new == _load_data(fs', f)
                IN  /\ Len(new) = Len(old) + 1
                    /\ SubSeq(new, 1, Len(old)) = old
                    /\ new[Len(new)].id = ret'.value
                    /\ \A g \in Files \ {f} : fs'[g] = fs[g]
        /\ DeleteStep =>
                \A f \in Files :
                    _load_data(fs', f)
                        = C16_Survivors(_load_data(fs, f), _load_data(fs', f))
        /\ UpdateStep =>
                \A f \in Files :
                    /\ Len(_load_data(fs', f)) = Len(_load_data(fs, f))
                    /\ \A k \in 1..Len(_load_data(fs, f)) :
                            _load_data(fs', f)[k].id # _load_data(fs, f)[k].id
                            => _load_data(fs, f)[k].id = ret'.args.item_id ]_vars

\* list_all('all') after an article and then a note were added: the note
\* comes first.
C16_Witness ==
    /\ ret.op = "get_all_items"
    /\ ret.args.item_type = "all"
    /\ nUpdates = 0
    /\ Len(ret.value) = 2
    /\ ret.value[1].type = "note"
    /\ ret.value[2].type = "article"
    /\ ret.value[2].id < ret.value[1].id

\* The step is a search_knowledge_base call.
SearchStep ==
    /\ ret'.op = "search_knowledge_base"
    /\ UNCHANGED <<nextUuid, nUpdates, now, writable, deleted, th>>

\* C17 as stated: a search during which anything failed, the load of a
\* collection included, raises nothing and returns the empty list.
C17_AnyFailureReturnsEmpty ==
    (ret.op = "search_knowledge_base" /\ ret.log # {}) =>
        (~ret.raised /\ ret.value = <<>>)

\* The files with every file json.load raises on replaced by an empty list.
C17_Loadable(files) ==
    [f \in Files |-> IF files[f].closed THEN files[f] ELSE JsonText(<<>>)]

\* C17 amended: no search raises or changes a file; a search during which the
\* matching or the scoring of a record failed returns the empty list; a
\* collection whose load failed counts as empty, and the search returns what
\* the other collections give.
C17_SearchNeverRaises ==
    [][ SearchStep =>
            /\ ~ret'.raised
            /\ fs' = fs
            /\ "Error searching knowledge base" \in ret'.log => ret'.value = <<>>
            /\ ret'.value
                = search_knowledge_base(C17_Loadable(fs), ret'.args.query,
                        ret'.args.search_type, ret'.args.ticker,
                        ret'.args.tags).value ]_vars

\* A note with 'Apple' in its title and an article whose content is null are
\* stored; the search for 'Apple' failed on the article and returned nothing.
C17_Witness ==
    /\ ret.op = "search_knowledge_base"
    /\ ret.args.query = S_Apple
    /\ ret.args.tags = NoneList
    /\ ret.args.ticker = None
    /\ "Error searching knowledge base" \in ret.log
    /\ ~ret.raised
    /\ ret.value = <<>>
    /\ \E k \in 1..Len(_load_data(fs, notes_file)) :
            Contains(lower(S_Apple), lower(_load_data(fs, notes_file)[k].title))
    /\ \E k \in 1..Len(_load_data(fs, articles_file)) :
            _load_data(fs, articles_file)[k].content = None

\* The step is a get_item, get_all_items or search_knowledge_base call.
ReadStep ==
    /\ ret'.op \in {"get_item", "get_all_items", "search_knowledge_base"}
    /\ UNCHANGED <<nextUuid, nUpdates, now, writable, deleted, th>>

\* The keys search puts on its results.
C18_Annotations == {"relevance_score", "collection"}

\* C18: get, list_all and search change no persisted collection, and the
\* relevance_score and collection that search puts on its results are on no
\* record a get or a list_all returns, nor on a stored record.
C18_ReadsLeaveStore ==
    [][ ReadStep =>
            /\ fs' = fs
            /\ \A f \in Files : \A k \in 1..Len(_load_data(fs', f)) :
                    DOMAIN _load_data(fs', f)[k] \cap C18_Annotations = {}
            /\ (ret'.op = "get_item" /\ ret'.value.found) =>
                    DOMAIN ret'.value.item \cap C18_Annotations = {}
            /\ ret'.op = "get_all_items" =>
                    \A k \in 1..Len(ret'.value) :
                        DOMAIN ret'.value[k] \cap C18_Annotations = {} ]_vars

\* A search returned two annotated results, and the records in the files are
\* as the add calls stored them.
C18_Witness ==
    /\ ret.op = "search_knowledge_base"
    /\ Len(ret.value) = 2
    /\ \A i \in 1..2 : C18_Annotations \subseteq DOMAIN ret.value[i]
    /\ \A i \in 1..2 :
            /\ get_item(fs, ret.value[i].id, "None").found
            /\ get_item(fs, ret.value[i].id, "None").item = Strip(ret.value[i])

\* The step is a search that follows a search with the same arguments, no
\* other call in between (the files are as they were).
C19_SearchAgain ==
    /\ SearchStep
    /\ ret.op = "search_knowledge_base"
    /\ ret'.args = ret.args
    /\ fs' = fs

\* C19 as stated: two consecutive searches with the same arguments on the same
\* collections return the same records in the same order with the same scores.
C19_SearchDeterministic ==
    [][ C19_SearchAgain => ret'.value = ret.value ]_vars

\* The recency bonus of the specification for a record of the age.
C19_Bonus(age) == IF age < 30 THEN 5 ELSE IF age < 90 THEN 2 ELSE 0

\* C19 amended: two consecutive searches with the same arguments on the same
\* collections return the same records; they return them in the same order
\* with the same scores when no record has passed its 30th or 90th day
\* between the two calls.
C19_SameRecordsSameScoresOnTheDay ==
    [][ C19_SearchAgain =>
            /\ Len(ret'.value) = Len(ret.value)
            /\ { Strip(ret'.value[i]) : i \in 1..Len(ret'.value) }
                    = { Strip(ret.value[i]) : i \in 1..Len(ret.value) }
            /\ (\A i \in 1..Len(ret.value) :
                    C19_Bonus(ret'.at - ret.value[i].created_at)
                        = C19_Bonus(ret.at - ret.value[i].created_at))
                => ret'.value = ret.value ]_vars

\* A search a day after the records it returns were added: their scores are
\* those of a search on the day they were added.
C19_Witness ==
    /\ ret.op = "search_knowledge_base"
    /\ ret.at = 1
    /\ Len(ret.value) = 2
    /\ \A i \in 1..2 :
            /\ ret.value[i].created_at = 0
            /\ ret.value[i].relevance_score
                    = C10_Expected(ret.value[i], ret.args.query, 0)

\* The step is the save and the return of the call of caller t.
RaceSaveStep(t) == th.c[t].pc = "loaded" /\ th'.c[t].pc = "idle"

\* C20: when a call saves a collection that another call has saved since the
\* first loaded it (both loaded it before either saved it), the collection is
\* afterwards the whole list the later saver made from what it had loaded, the
\* later saver returns success, and the record an earlier saver's add stored,
\* whose id that add returned, is gone: a get of the id finds nothing.
C20_LostUpdate ==
    [][ \A t \in Callers :
            (RaceSaveStep(t) /\ th.c[t].missed # {}) =>
                /\ ~ret'.raised
                /\ ret'.value = th.c[t].value
                /\ _load_data(fs', th.c[t].file_path) = th.c[t].data
                /\ \A m \in th.c[t].missed :
                        m.op \in AddOps =>
                            /\ \A k \in 1..Len(th.c[t].data) :
                                    th.c[t].data[k].id # m.value
                            /\ ~get_item(fs', m.value, "None").found ]_vars

\* Two add_note calls loaded the empty notes before either saved: both have
\* returned their ids, and the notes hold the record of the later saver only.
C20_Witness ==
    /\ ret.op = "add_note"
    /\ ~ret.raised
    /\ \E t \in Callers :
            /\ th.c[t].pc = "idle"
            /\ \E m \in th.c[t].overwrote :
                    /\ m.op = "add_note"
                    /\ m.value # ret.value
                    /\ ~get_item(fs, m.value, "None").found
    /\ Len(_load_data(fs, notes_file)) = 1
    /\ _load_data(fs, notes_file)[1].id = ret.value

\* The file of the collection a call is on: the one of the kind the add method
\* is for, or of the item_type the update or delete names.
C21_KindFile(op, args) ==
    LET kind == IF op \in AddOps THEN TypeOfAdd(op) ELSE args.item_type
    IN  Collections[CHOOSE c \in 1..3 : Collections[c][1] = kind][2]

\* What the call c makes of a collection when it runs on it alone.
C21_Alone(c, items) ==
    CASE c.op \in AddOps -> Append(items, c.data[Len(c.data)])
      [] c.op = "update_item" ->
            LET i == first_with_id(items, c.args.item_id)
            IN  IF i = 0 THEN items
                ELSE [items EXCEPT ![i] = apply_updates(items[i], c.args.updates)]
      [] c.op = "delete_item" -> without_id(items, c.args.item_id)

\* The fields of the records each add method builds.
C21_Fields(collection_name) ==
    {"id", "type", "title", "content", "tags", "related_tickers", "created_at",
     "updated_at"}
    \cup (CASE collection_name = "notes" -> {}
            [] collection_name = "articles" -> {"url", "summary"}
            [] collection_name = "research" -> {"source"})

\* C21: with two callers running add, update and delete at once, a call writes
\* only the collection of its own kind, and when no call on the same collection
\* has saved between its load and its save (whatever calls on the other kinds
\* have), the collection is after it what the call alone makes of the
\* collection as it was just before; no other step writes a collection, and
\* every collection holds only records built by the add method of its kind.
C21_KindsIndependent ==
    [][ /\ \A t \in Callers :
                RaceSaveStep(t) =>
                    LET f == C21_KindFile(th.c[t].op, th.c[t].args)
                    IN  /\ \A g \in Files \ {f} : fs'[g] = fs[g]
                        /\ th.c[t].missed = {} =>
                                _load_data(fs', f) = C21_Alone(th.c[t], _load_data(fs, f))
        /\ (\A t \in Callers : ~RaceSaveStep(t)) => fs' = fs
        /\ \A c \in 1..3 :
                \A k \in 1..Len(_load_data(fs', Collections[c][2])) :
                    DOMAIN _load_data(fs', Collections[c][2])[k]
                        = C21_Fields(Collections[c][1]) ]_vars

\* An add_note loaded the notes, then an add_article ran from its load to its
\* save, then the add_note saved: each collection holds its own record.
C21_Witness ==
    /\ ret.op = "add_note"
    /\ ~ret.raised
    /\ ret.value = 1
    /\ \E t \in Callers : th.c[t].pc = "idle" /\ th.c[t].overwrote = {}
    /\ Len(_load_data(fs, notes_file)) = 1
    /\ _load_data(fs, notes_file)[1].id = 1
    /\ Len(_load_data(fs, articles_file)) = 1
    /\ _load_data(fs, articles_file)[1].id = 2
    /\ "url" \in DOMAIN _load_data(fs, articles_file)[1]

\* C22: an update_item call that finds its record returns True even when
\* field_updates has a key the record lacks; afterwards the record has the
\* fields it had and no other, each field that is a key of field_updates has
\* the value given for it, updated_at is the time of the call, and every other
\* field is as before.
C22_UnknownKeysIgnored ==
    [][ UpdateStep =>
            LET item_type == ret'.args.item_type
                updates == ret'.args.updates
            IN  item_type \in ItemTypes =>
                    LET file_path == file_of(item_type)
                        items == _load_data(fs, file_path)
                        after == _load_data(fs', file_path)
                        i == first_with_id(items, ret'.args.item_id)
                    IN  i # 0 =>
                            /\ ret'.value = TRUE
                            /\ Len(after) = Len(items)
                            /\ DOMAIN after[i] = DOMAIN items[i]
                            /\ after[i].updated_at = now
                            /\ \A k \in DOMAIN items[i] \ {"updated_at"} :
                                    after[i][k] = IF k \in DOMAIN updates
                                                  THEN updates[k]
                                                  ELSE items[i][k] ]_vars

\* An update with the keys title and rating of a note a month old: the title
\* is the new one, the note has no rating, updated_at is the day of the call.
C22_Witness ==
    /\ ret.op = "update_item"
    /\ ret.value
    /\ DOMAIN ret.args.updates = {"title", "rating"}
    /\ \E k \in 1..Len(_load_data(fs, notes_file)) :
            LET note == _load_data(fs, notes_file)[k]
            IN  /\ note.id = ret.args.item_id
                /\ note.title = S_Draft
                /\ "rating" \notin DOMAIN note
                /\ note.content = S_StrongQuarter
                /\ note.created_at = 0
                /\ note.updated_at = 30

\* The record has no created_at, or one that is None or no timestamp.
C23_Undated(item) ==
    "created_at" \notin DOMAIN item \/ item.created_at \in {EmptyStamp, NoneStamp, TextStamp}

\* The files with today's date as the created_at of every record that has none.
C23_Dated(files) ==
    [f \in Files |->
        [files[f] EXCEPT !.items =
            [k \in 1..Len(files[f].items) |->
                LET item == files[f].items[k]
                IN  [key \in DOMAIN item \cup {"created_at"} |->
                        IF key = "created_at"
                        THEN (IF C23_Undated(item) THEN now ELSE item.created_at)
                        ELSE item[key]]]]]

\* C23: a record whose created_at is missing, None or no timestamp gets from a
\* search the score of its term matches alone, without a recency bonus; a
\* search returns the records (by id) it would return if those records had a
\* created_at, so none is left out and no search fails on account of its
\* created_at; and a search in which nothing raised returns each such record
\* that matches.
C23_UndatedScoresTermsOnly ==
    [][ (SearchStep /\ fs' = fs) =>
            LET q == ret'.args
                terms == split(lower(q.query))
                seen == visited(fs, collections_of(q.search_type))
                dated == search_knowledge_base(C23_Dated(fs), q.query, q.search_type,
                                               q.ticker, q.tags)
            IN  /\ ~ret'.raised
                /\ \A i \in 1..Len(ret'.value) :
                        C23_Undated(Strip(ret'.value[i])) =>
                            ret'.value[i].relevance_score
                                = C10_TermsWeight(ret'.value[i], terms, Len(terms))
                /\ { ret'.value[i].id : i \in 1..Len(ret'.value) }
                        = { dated.value[i].id : i \in 1..Len(dated.value) }
                /\ "Error searching knowledge base" \notin ret'.log =>
                        \A n \in 1..Len(seen) :
                            (/\ C23_Undated(seen[n].item)
                             /\ _matches_search(seen[n].item, q.query, q.ticker,
                                                q.tags).value)
                            => \E i \in 1..Len(ret'.value) :
                                    Strip(ret'.value[i]) = seen[n].item ]_vars

\* A search for 'Apple' returned two notes stored the same day, both with
\* 'Apple' in the title only: the one with a created_at has 3.5, the one
\* without has 3.0.
C23_Witness ==
    /\ ret.op = "search_knowledge_base"
    /\ ret.args.query = S_Apple
    /\ Len(ret.value) = 2
    /\ ~C23_Undated(Strip(ret.value[1]))
    /\ ret.value[1].relevance_score = 35
    /\ "created_at" \notin DOMAIN ret.value[2]
    /\ ret.value[2].relevance_score = 30

\* A search for 'Apple' returned two notes, one whose created_at is None and
\* one whose created_at is no timestamp, each with 3.0.
C23_WitnessNull ==
    /\ ret.op = "search_knowledge_base"
    /\ ret.args.query = S_Apple
    /\ Len(ret.value) = 2
    /\ ret.value[1].created_at = NoneStamp
    /\ ret.value[2].created_at = TextStamp
    /\ \A i \in 1..2 : ret.value[i].relevance_score = 30

\* The file is absent, empty, or its text cannot be read as a list.
C24_NoList(file) == file = Absent \/ file = EmptyFile \/ ~file.closed

\* What the loads of the files give, one file after the other.
RECURSIVE C24_Loaded(_, _)
C24_Loaded(files, collections) ==
    IF collections = <<>> THEN <<>>
    ELSE (IF C24_NoList(files[Head(collections)[2]]) THEN <<>>
          ELSE files[Head(collections)[2]].items)
         \o C24_Loaded(files, Tail(collections))

\* The directory after a KnowledgeBase was made on the directory before: each
\* file that was absent exists and holds the empty list, each other file is as
\* it was.
C24_Constructed(before, after) ==
    \A f \in Files :
        IF before[f] = Absent
        THEN /\ after[f] # Absent
             /\ ~C24_NoList(after[f])
             /\ after[f].items = <<>>
        ELSE after[f] = before[f]

\* C24: a get_all_items call, which returns what _load_data returns for the
\* files of its type, raises nothing and gets the empty list for a file that is
\* absent, empty or unreadable as a list (and the lists of the other files);
\* making a KnowledgeBase on a directory, at the start and again later,
\* creates each absent file with the empty list and leaves the others as they
\* were.
C24_LoadAndInit ==
    /\ ret.op = "__init__" /\ C24_Constructed(ret.args, fs)
    /\ [][ /\ (ReadStep /\ fs' = fs /\ ret'.op = "get_all_items") =>
                /\ ~ret'.raised
                /\ ret'.value
                     = C24_Loaded(fs, SelectSeq(Collections,
                            LAMBDA c : ret'.args.item_type \in {c[1], "all"}))
           /\ ret'.op = "__init__" =>
                (ret'.args = fs /\ C24_Constructed(fs, fs')) ]_vars

\* On a directory with an empty notes.json, an articles.json that holds an
\* article and no research.json, a KnowledgeBase was made; research.json was
\* then removed; get_all_items() returned the article alone and logged the
\* failed loads.
C24_Witness ==
    /\ ret.op = "get_all_items"
    /\ ret.args.item_type = "all"
    /\ fs[notes_file] = EmptyFile
    /\ fs[articles_file] = JsonText(<<OldArticle>>)
    /\ fs[research_file] = Absent
    /\ ~ret.raised
    /\ ret.value = <<OldArticle>>
    /\ "Error loading data" \in ret.log

\* C26: after an add that returned an id, its collection is the records that
\* were in its file before the call, in their order, followed by the new
\* record, also when the file could not be read as a list.
C26_AddKeepsStored ==
    [][ (AddStep /\ ret'.op \in AddOps /\ ~ret'.raised) =>
            LET f == C21_KindFile(ret'.op, ret'.args)
                before == fs[f].items
                after == _load_data(fs', f)
            IN  /\ Len(after) = Len(before) + 1
                /\ SubSeq(after, 1, Len(before)) = before
                /\ after[Len(after)].id = ret'.value ]_vars

\* The query has a character that is not whitespace.
C27_HasTerm(query) == \E i \in 1..Len(query) : query[i] \notin Whitespace

\* C27: every record a search returns has a score of at least 1.0 for each
\* whitespace-delimited term of the query (10 in tenths), a query with a
\* character that is not whitespace having at least one term; and the score
\* without the recency bonus is 0 only for a query that is empty or all
\* whitespace.
C27_ScoreAtLeastTerms ==
    ret.op = "search_knowledge_base" =>
        LET terms == split(lower(ret.args.query))
        IN  /\ C27_HasTerm(ret.args.query) <=> Len(terms) >= 1
            /\ \A i \in 1..Len(ret.value) :
                    LET textual == ret.value[i].relevance_score
                                    - C19_Bonus(ret.at - ret.value[i].created_at)
                    IN  /\ ret.value[i].relevance_score >= 10 * Len(terms)
                        /\ textual >= 10 * Len(terms)
                        /\ textual = 0 => ~C27_HasTerm(ret.args.query)

\* A search for 'Sales Up' three months after a note with 'iPhone sales up' as
\* its content was added returned the note with the score 2.0: 1.0 for each of
\* the two terms, nothing else.
C27_Witness ==
    /\ ret.op = "search_knowledge_base"
    /\ ret.args.query = S_SalesUp
    /\ Len(split(lower(ret.args.query))) = 2
    /\ Len(ret.value) = 1
    /\ ret.value[1].content = S_IPhoneSalesUp
    /\ ret.at - ret.value[1].created_at = 90
    /\ ret.value[1].relevance_score = 20

\* A search with the empty query returned a record: its score is the recency
\* bonus alone.
C27_WitnessEmptyQuery ==
    /\ ret.op = "search_knowledge_base"
    /\ ret.args.query = EmptyStr
    /\ Len(ret.value) >= 1
    /\ ret.value[1].relevance_score = C19_Bonus(ret.at - ret.value[1].created_at)

\* C28: after the Delete button of a listed item was pressed, whatever the
\* kind of the item, no item of get_all_items() has its id.
C28_DeleteButtonRemoves ==
    [][ DeleteStep =>
            \A k \in 1..Len(get_all_items(fs', "all")) :
                get_all_items(fs', "all")[k].id # ret'.args.item_id ]_vars

\* Two tickers are the same ticker once upper-cased and stripped.
C25_SameTicker(a, b) == strip(upper(a)) = strip(upper(b))

\* C25 as stated: with no clear_cache in between, the external provider is
\* fetched at most once for each ticker (tickers compared upper-cased and
\* stripped), whether the fetches succeed or fail.
C25_FetchedOncePerTicker ==
    \A i, j \in 1..Len(stock.fetched) :
        i < j => ~C25_SameTicker(stock.fetched[i].asked, stock.fetched[j].asked)

\* C25: with no clear_cache in between, the external provider is fetched at
\* most once with success for each ticker (tickers compared upper-cased and
\* stripped) and never again for a ticker after a fetch for it succeeded; a
\* failed fetch is not cached (the cache holds the tickers fetched with
\* success, no other), so that the ticker is fetched again when next asked for.
C25_FetchedOncePerTickerUnlessFailed ==
    /\ \A i, j \in 1..Len(stock.fetched) :
            (i < j /\ C25_SameTicker(stock.fetched[i].asked, stock.fetched[j].asked))
                => ~stock.fetched[i].ok
    /\ DOMAIN stock.cache
         = { strip(upper(stock.fetched[i].asked)) :
                i \in { k \in 1..Len(stock.fetched) : stock.fetched[k].ok } }

\* 'AAPL' was fetched and the fetch failed, 'aapl' was fetched and the fetch
\* succeeded, and ' aapl ' has been answered from the cache.
C25_Witness ==
    /\ Len(stock.fetched) = 2
    /\ stock.fetched[1] = [asked |-> S_AAPL, ok |-> FALSE]
    /\ stock.fetched[2] = [asked |-> S_aapl, ok |-> TRUE]
    /\ ret.op = "get_stock_data"
    /\ ret.args.ticker = S_aapl_spaced
    /\ ret.value = stock.cache[S_AAPL]
    /\ "error" \notin DOMAIN ret.value

\* C4: a load of a collection that runs while a save of the same collection is
\* in progress returns the complete collection of before the save or the
\* complete one the save writes, never an empty or truncated one.
C4_LoadSeesOldOrNew ==
    (ret.op = "get_all_items" /\ th.r.saving) =>
        (ret.value = th.r.old \/ ret.value = th.r.new)

====
